---- MODULE Spec2Model ----
(***************************************************************************)
(* Model of gitup/update.py: the batch driver (update_bookmarks,           *)
(* update_directories), the directory resolver (_update_directory), the    *)
(* repository probe (_directory_is_git_repo), the repository updater       *)
(* (_update_repository) and the subprocess wrapper (_exec_shell).          *)
(*                                                                         *)
(* Python strings are sequences of character codes, so that slicing,       *)
(* endswith, path joining and list sorting are computed as Python does.    *)
(***************************************************************************)
EXTENDS Integers, Sequences, FiniteSets, TLC

VARIABLES
    fs,            \* the filesystem: path -> "file" | "dir" (other paths are absent)
    repo,          \* git's state of each working copy: path -> [behind, dirty, age]
    cwd,           \* the process's current working directory (os.chdir)
    entry,         \* which entry point was called: "bookmarks" | "directories"
    batch,         \* its argument: the bookmarks, or the paths
    start_cwd,     \* the working directory in which the entry point was called
    idx,           \* position of the entry point's for loop
    pc,            \* the statement the program is at
    dir_path, dir_name, is_bookmark,    \* _update_directory's arguments
    repositories,  \* _update_directory: the (repo_path, repo_name) list it loops over
    ridx,          \* position of that loop
    repo_path, repo_name,               \* _update_repository's arguments
    dry_fetch, last_commit, status, result,   \* _update_repository's locals
    out0,          \* out(0, ...) messages of the batch so far
    runOut,        \* what the current _update_repository call has emitted
    cmds,          \* the git commands the current _update_repository call has issued
    procs,         \* what each of those processes returned: [exit, out]
    runStart,      \* the repository's git state when the current call began
    prevRun,       \* summary of the previous _update_repository call, if it had nothing to fetch
    invoked,       \* _update_repository calls made by the current _update_directory call
    probed,        \* paths the probe has accepted in the current _update_directory call
    listed,        \* the listing os.listdir has just returned to _update_directory
    shuffled,      \* whether that listing gave the repositories out of path order
    resolved,      \* _update_directory calls made by the batch so far
    probeArg, probeRet,  \* a direct call of the probe: its argument and what it returned
    shellArg, shellRet   \* a direct call of _exec_shell: the process, and what it returned

vars == <<fs, repo, cwd, entry, batch, start_cwd, idx, pc, dir_path, dir_name,
          is_bookmark, repositories, ridx, repo_path, repo_name, dry_fetch,
          last_commit, status, result, out0, runOut, cmds, procs, runStart,
          prevRun, invoked, probed, listed, shuffled, resolved, probeArg,
          probeRet, shellArg, shellRet>>

driverVars   == <<entry, batch, start_cwd, idx>>
resolverVars == <<dir_path, dir_name, is_bookmark, repositories, ridx, invoked,
                  probed, listed, shuffled>>
updaterArgs  == <<repo_path, repo_name>>
updaterVars  == <<dry_fetch, last_commit, status, result, runOut, cmds, procs,
                  runStart, prevRun>>
probeVars    == <<probeArg, probeRet>>
shellVars    == <<shellArg, shellRet>>

----------------------------------------------------------------------------
(* Bounds *)

\* longest bookmark list / path list given to an entry point
MaxBatch == 2

\* longest output of a process given to _exec_shell directly
MaxOutput == 5

----------------------------------------------------------------------------
(* String literals *)

\* "nothing to commit, working directory clean"
CleanMarker == <<110,111,116,104,105,110,103,32,116,111,32,99,111,109,109,105,116,44,32,119,111,114,107,105,110,103,32,100,105,114,101,99,116,111,114,121,32,99,108,101,97,110>>
\* "never"
Never == <<110,101,118,101,114>>
\* the path separator "/" and the newline character
Sep == <<47>>
Newline == <<10>>
\* ".git"
DotGit == <<46,103,105,116>>

(* Outputs the git executable can produce (the process's combined output). *)
\* "3 days ago\n", "2 hours ago\n"
AgeOld == <<51,32,100,97,121,115,32,97,103,111,10>>
AgeNew == <<50,32,104,111,117,114,115,32,97,103,111,10>>
\* "On branch m\nnothing to commit, working directory clean\n"
StatusClean == <<79,110,32,98,114,97,110,99,104,32,109,10>> \o CleanMarker \o Newline
\* "nothing to commit, working tree clean\n" (a newer git's wording)
StatusCleanNew == <<110,111,116,104,105,110,103,32,116,111,32,99,111,109,109,105,116,44,32,119,111,114,107,105,110,103,32,116,114,101,101,32,99,108,101,97,110,10>>
\* "Changes not staged for commit\n"
StatusDirty == <<67,104,97,110,103,101,115,32,110,111,116,32,115,116,97,103,101,100,32,102,111,114,32,99,111,109,109,105,116,10>>
\* "From o\n" and "u" (an output that does not end in a newline)
FetchOut == <<70,114,111,109,32,111,10>>
FetchOutNoNl == <<117>>
\* "fatal\n"
Fatal == <<102,97,116,97,108,10>>
\* "Fast-forward\n", "Already up-to-date.\n"
PullOut == <<70,97,115,116,45,102,111,114,119,97,114,100,10>>
PullUpToDate == <<65,108,114,101,97,100,121,32,117,112,45,116,111,45,100,97,116,101,46,10>>

----------------------------------------------------------------------------
(* Python string and path operations *)

\* str.endswith
EndsWith(s, suffix) ==
    /\ Len(suffix) <= Len(s)
    /\ SubSeq(s, Len(s) - Len(suffix) + 1, Len(s)) = suffix

\* the order of Python's str comparison: by character code, a prefix first
RECURSIVE StrLess(_, _)
StrLess(s, t) ==
    IF t = <<>> THEN FALSE
    ELSE IF s = <<>> THEN TRUE
    ELSE IF s[1] # t[1] THEN s[1] < t[1]
    ELSE StrLess(Tail(s), Tail(t))

\* posixpath.isabs
IsAbs(s) == s # <<>> /\ <<s[1]>> = Sep

\* posixpath.join of two parts
Join(a, b) ==
    IF IsAbs(b) THEN b
    ELSE IF a = <<>> \/ EndsWith(a, Sep) THEN a \o b
    ELSE a \o Sep \o b

\* posixpath.normpath, on paths with no ".", ".." or empty component inside:
\* trailing separators are dropped
RECURSIVE NormPath(_)
NormPath(s) ==
    IF Len(s) > 1 /\ EndsWith(s, Sep) THEN NormPath(SubSeq(s, 1, Len(s) - 1))
    ELSE s

\* posixpath.abspath: relative paths are taken from the current directory
AbsPath(path, current) ==
    IF IsAbs(path) THEN NormPath(path) ELSE NormPath(Join(current, path))

\* posixpath.split(path)[1]: what follows the last separator
RECURSIVE BaseName(_)
BaseName(s) ==
    IF s = <<>> \/ EndsWith(s, Sep) THEN <<>>
    ELSE BaseName(SubSeq(s, 1, Len(s) - 1)) \o <<s[Len(s)]>>

----------------------------------------------------------------------------
(* The filesystem *)

\* "/w", the directory the program is started in, and the entries below it
W == <<47,119>>
NameP == <<112>>
NameQ == <<113>>
NameZ == <<122>>
NameA == <<97>>
NameB == <<98>>
NameC == <<99>>
P == Join(W, NameP)
Q == Join(W, NameQ)
Z == Join(W, NameZ)
ChildNames == {NameA, NameB, NameC}
Children == {Join(P, n) : n \in ChildNames}

\* every name a directory of the model can hold
Names == ChildNames \cup {DotGit, NameP, NameQ}

Kind(path) == IF path \in DOMAIN fs THEN fs[path] ELSE "absent"

\* os.path.exists, os.path.isdir
Exists(path) == Kind(path) # "absent"
IsDir(path) == Kind(path) = "dir"

\* os.listdir: the names in a directory, in an order the filesystem chooses;
\* OSError when the path is no directory
ListDirFails(path) == ~IsDir(path)
DirNames(path) == {n \in Names : Exists(Join(path, n))}
Listings(S) ==
    {l \in [1..Cardinality(S) -> S] : \A i, j \in 1..Cardinality(S) : i # j => l[i] # l[j]}

\* _directory_is_git_repo
DirectoryIsGitRepoNoIsdir(directory_path) ==
    IF IsDir(directory_path)
    THEN LET git_subfolder == Join(directory_path, DotGit)
         IN  IF Exists(git_subfolder) THEN TRUE ELSE FALSE
    ELSE FALSE

DirectoryIsGitRepo(directory_path) ==
    IF IsDir(directory_path)
    THEN LET git_subfolder == Join(directory_path, DotGit)
         IN  IF IsDir(git_subfolder) THEN TRUE ELSE FALSE
    ELSE FALSE

----------------------------------------------------------------------------
(* The git executable, as the program sees it: a process that exits with a  *)
(* status and an output, and that may change the working copy it runs in.   *)
(* A working copy is behind when its remote holds commits it does not have, *)
(* dirty when its working tree holds uncommitted changes; age is what       *)
(* `git log -n 1 --pretty="%ar"` prints for its last commit.                *)

GitState == [behind : BOOLEAN, dirty : BOOLEAN, age : {AgeOld}]
NoState == [behind |-> FALSE, dirty |-> FALSE, age |-> <<>>]
Proc(exit, output) == [exit |-> exit, out |-> output]
Failure == Proc(1, Fatal)

IsWorkTree(dir) == dir \in DOMAIN repo
StateOf(dir) == IF IsWorkTree(dir) THEN repo[dir] ELSE NoState

\* git fetch --dry-run: prints what a fetch would bring, changes nothing
GitFetchDryRun(dir) ==
    {Failure} \cup
    (IF ~IsWorkTree(dir) THEN {}
     ELSE IF repo[dir].behind THEN {Proc(0, FetchOut), Proc(0, FetchOutNoNl)}
     ELSE {Proc(0, <<>>)})

\* git log -n 1 --pretty="%ar": fails in a repository with no commit
GitLogLast(dir) ==
    {Failure} \cup (IF IsWorkTree(dir) THEN {Proc(0, repo[dir].age)} ELSE {})

\* git status
GitStatusOut(dir) ==
    {Failure} \cup
    (IF ~IsWorkTree(dir) THEN {}
     ELSE IF repo[dir].dirty THEN {Proc(0, StatusDirty)}
     ELSE {Proc(0, StatusClean), Proc(0, StatusCleanNew), Proc(0, CleanMarker)})

\* git pull: a success brings the working copy up to date
GitPullOut(dir) ==
    {Failure} \cup
    (IF ~IsWorkTree(dir) THEN {}
     ELSE IF repo[dir].behind THEN {Proc(0, PullOut)}
     ELSE {Proc(0, PullUpToDate)})
AfterPull(dir, proc) ==
    IF proc.exit = 0 /\ IsWorkTree(dir) /\ repo[dir].behind
    THEN [repo EXCEPT ![dir] = [behind |-> FALSE, dirty |-> repo[dir].dirty, age |-> AgeNew]]
    ELSE repo

----------------------------------------------------------------------------
(* _exec_shell *)

\* subprocess.check_output raises CalledProcessError on a nonzero exit status
Raises(proc) == proc.exit # 0

\* lines 18-20: what _exec_shell returns for the output it captured
ExecShell(output) ==
    IF output # <<>> THEN SubSeq(output, 1, Len(output) - 1) ELSE output

----------------------------------------------------------------------------
(* Messages given to out(level, text), and the text print() writes *)

Msg(level, text, kind, arg, n) ==
    [level |-> level, text |-> text, kind |-> kind, arg |-> arg, n |-> n]

Header(name)        == Msg(1, "{0}:", "", name, 0)
FetchError          == Msg(2, "Error: cannot fetch; do you have a remote repository configured correctly?", "", <<>>, 0)
NoNewChangesMsg(c)  == Msg(2, "No new changes. Last commit was {0}.", "", c, 0)
NewChangesMsg       == Msg(2, "There are new changes upstream...", "", <<>>, 0)
PullingMsg          == Msg(2, "Pulling new changes...", "", <<>>, 0)
ChangesMadeMsg(c)   == Msg(2, "The following changes have been made since {0}:", "", c, 0)
Printed(text)       == Msg(-1, "print", "", text, 0)
UncommittedMsg      == Msg(2, "Warning: you have uncommitted changes in this repository!", "", <<>>, 0)
IgnoringMsg         == Msg(2, "Ignoring.", "", <<>>, 0)
CannotEnterMsg(t, d)  == Msg(0, "Error: cannot enter {0}; does it exist?", t, d, 0)
NotADirectoryMsg(t, d) == Msg(0, "Error: {0} is not a directory!", t, d, 0)
DoesNotExistMsg(t, d) == Msg(0, "Error: {0} does not exist!", t, d, 0)
IsRepositoryMsg(t, d) == Msg(0, "{0} is a git repository:", t, d, 0)
ContainsOneMsg(t, d)  == Msg(0, "{0} contains 1 git repository:", t, d, 0)
ContainsManyMsg(t, d, n) == Msg(0, "{0} contains {1} git repositories:", t, d, n)
GuidanceMsg         == Msg(0, "You don't have any bookmarks configured! Get help with 'gitup -h'.", "", <<>>, 0)

----------------------------------------------------------------------------
(* The initial states: a filesystem, git's state of the working copies in   *)
(* it, and a call of one of the two entry points from the directory /w.     *)
(*   /w/p        a directory, with or without a .git subdirectory           *)
(*   /w/p/a      a file, or a working copy                                  *)
(*   /w/p/b, c   a directory, or a working copy                             *)
(*   /w/q        a file;   /w/z  does not exist                             *)
(* /w/p and /w/p/a, when working copies, start in any git state; /w/p/b     *)
(* starts behind its remote, /w/p/c up to date with it.                     *)

ChildKinds == [ChildNames -> {"plain", "repo"}]

MkFs(pgit, ck) ==
    LET repos == {Join(P, n) : n \in {m \in ChildNames : ck[m] = "repo"}}
        dom == {W, P, Q} \cup Children
               \cup (IF pgit THEN {Join(P, DotGit)} ELSE {})
               \cup {Join(r, DotGit) : r \in repos}
    IN  [path \in dom |->
            IF path = Q \/ (path = Join(P, NameA) /\ ck[NameA] = "plain")
            THEN "file" ELSE "dir"]

WorkTrees(f) == {path \in DOMAIN f : Join(path, DotGit) \in DOMAIN f}

\* the git states a working copy can start in
InitialStates(path) ==
    IF path = Join(P, NameB) THEN {g \in GitState : g.behind}
    ELSE IF path = Join(P, NameC) THEN {g \in GitState : ~g.behind}
    ELSE GitState

Bookmarks == {<<P, NameP>>, <<Z, NameZ>>}
PathArgs == {NameP, P, NameQ}
SeqsUpTo(S, n) == UNION {[1..k -> S] : k \in 0..n}

\* no direct call of _exec_shell has been made
NoCall == [exit |-> -1, out |-> <<>>]
NoReturn == [raised |-> FALSE, value |-> <<>>]

NoRun == [path |-> <<>>, out |-> <<>>, cmds |-> <<>>, before |-> NoState]

InitIdle ==
    /\ cwd = W /\ start_cwd = W
    /\ idx = 0 /\ pc = "start"
    /\ dir_path = <<>> /\ dir_name = <<>> /\ is_bookmark = FALSE
    /\ repositories = <<>> /\ ridx = 0
    /\ repo_path = <<>> /\ repo_name = <<>>
    /\ dry_fetch = <<>> /\ last_commit = <<>> /\ status = <<>> /\ result = <<>>
    /\ out0 = <<>> /\ runOut = <<>> /\ cmds = <<>> /\ procs = <<>>
    /\ runStart = NoState /\ prevRun = NoRun
    /\ invoked = <<>> /\ probed = {} /\ listed = <<>> /\ shuffled = FALSE
    /\ resolved = <<>>
    /\ probeArg = <<>> /\ probeRet = FALSE
    /\ shellArg = NoCall /\ shellRet = NoReturn

Init ==
    /\ \E pgit \in BOOLEAN, ck \in ChildKinds :
          /\ pgit => \A n \in ChildNames : ck[n] = "repo"
          /\ fs = MkFs(pgit, ck)
    /\ repo \in [WorkTrees(fs) -> GitState]
    /\ \A r \in DOMAIN repo : repo[r] \in InitialStates(r)
    /\ IsWorkTree(P) => \A r \in Children : ~repo[r].dirty
    /\ \/ entry = "bookmarks" /\ batch \in SeqsUpTo(Bookmarks, MaxBatch)
       \/ entry = "directories" /\ batch \in SeqsUpTo(PathArgs, MaxBatch)
    /\ InitIdle

----------------------------------------------------------------------------
(* The batch driver *)

\* line 126: `if bookmarks:`
HasBookmarksMutant(bookmarks) == Len(bookmarks) > 1
HasBookmarks(bookmarks) == bookmarks # <<>>

\* update_bookmarks, lines 126 and 129-131: the empty list gets the guidance
UpdateBookmarks ==
    /\ pc = "start" /\ entry = "bookmarks"
    /\ IF HasBookmarks(batch)
       THEN /\ pc' = "loop" /\ idx' = 1
            /\ out0' = out0
       ELSE /\ out0' = Append(out0, GuidanceMsg)
            /\ pc' = "done" /\ idx' = idx
    /\ UNCHANGED <<fs, repo, cwd, entry, batch, start_cwd, resolverVars,
                   updaterArgs, updaterVars, resolved, probeVars, shellVars>>

\* update_directories, line 135
UpdateDirectories ==
    /\ pc = "start" /\ entry = "directories"
    /\ pc' = "loop" /\ idx' = 1
    /\ UNCHANGED <<fs, repo, cwd, entry, batch, start_cwd, resolverVars,
                   updaterArgs, updaterVars, out0, resolved, probeVars, shellVars>>

\* lines 127-128: the call update_bookmarks makes for a bookmark
BookmarkCall(bookmark) ==
    [path |-> bookmark[1], name |-> bookmark[2], is_bookmark |-> TRUE]

\* lines 136-138: the call update_directories makes for a path
DirectoryCall(path) ==
    LET abs == AbsPath(path, cwd)
    IN  [path |-> abs, name |-> BaseName(abs), is_bookmark |-> FALSE]

\* one iteration of either for loop: call _update_directory, or leave the loop
NextEntry ==
    /\ pc = "loop"
    /\ IF idx > Len(batch)
       THEN /\ pc' = "done"
            /\ UNCHANGED <<resolverVars, resolved>>
       ELSE LET call == IF entry = "bookmarks" THEN BookmarkCall(batch[idx])
                        ELSE DirectoryCall(batch[idx])
            IN  /\ dir_path' = call.path
                /\ dir_name' = call.name
                /\ is_bookmark' = call.is_bookmark
                /\ resolved' = Append(resolved, call)
                /\ repositories' = <<>> /\ ridx' = 0
                /\ invoked' = <<>> /\ probed' = {} /\ listed' = <<>>
                /\ shuffled' = FALSE
                /\ pc' = "resolve"
    /\ UNCHANGED <<fs, repo, cwd, driverVars, updaterArgs, updaterVars, out0,
                   probeVars, shellVars>>

----------------------------------------------------------------------------
(* The directory resolver: _update_directory *)

\* lines 78-81
DirType(bookmark) == IF bookmark THEN "bookmark" ELSE "directory"

\* lines 107-111: the children the probe accepts, in the order of the listing
\* (the variant keeps every child)
RECURSIVE FindRepositoriesMutant(_, _, _)
FindRepositoriesMutant(dir_contents, path, name) ==
    IF dir_contents = <<>> THEN <<>>
    ELSE <<<<Join(path, Head(dir_contents)), Join(name, Head(dir_contents))>>>>
         \o FindRepositoriesMutant(Tail(dir_contents), path, name)
RECURSIVE FindRepositories(_, _, _)
FindRepositories(dir_contents, path, name) ==
    IF dir_contents = <<>> THEN <<>>
    ELSE LET item == Head(dir_contents)
             rpath == Join(path, item)
             rname == Join(name, item)
             rest == FindRepositories(Tail(dir_contents), path, name)
         IN  IF DirectoryIsGitRepo(rpath) THEN <<<<rpath, rname>>>> \o rest ELSE rest

\* the order of Python's tuple comparison on (repo_path, repo_name)
TupleLess(x, y) == StrLess(x[1], y[1]) \/ (x[1] = y[1] /\ StrLess(x[2], y[2]))

RECURSIVE InsertSorted(_, _)
InsertSorted(x, s) ==
    IF s = <<>> THEN <<x>>
    ELSE IF ~TupleLess(s[1], x) THEN <<x>> \o s
    ELSE <<s[1]>> \o InsertSorted(x, Tail(s))

\* line 120: repositories.sort()
SortRepositoriesMutant(repos) == repos
RECURSIVE SortRepositories(_)
SortRepositories(repos) ==
    IF repos = <<>> THEN <<>>
    ELSE InsertSorted(Head(repos), SortRepositories(Tail(repos)))

\* lines 113-118: the count message
CountMessageMutant(t, d, num_of_repos) ==
    IF num_of_repos <= 1 THEN ContainsOneMsg(t, d)
    ELSE ContainsManyMsg(t, d, num_of_repos)
CountMessage(t, d, num_of_repos) ==
    IF num_of_repos = 1 THEN ContainsOneMsg(t, d)
    ELSE ContainsManyMsg(t, d, num_of_repos)

\* line 99: `if _directory_is_git_repo(dir_path):`
PathIsRepositoryMutant(path) == FALSE
PathIsRepository(path) == DirectoryIsGitRepo(path)

\* _update_directory returns to the entry point's loop
ReturnToDriver == pc' = "loop" /\ idx' = idx + 1

\* _update_directory up to its first call of _update_repository (lines 78-120)
UpdateDirectory ==
    /\ pc = "resolve"
    /\ LET dir_type == DirType(is_bookmark) IN
       IF ListDirFails(dir_path)
       THEN \* lines 85-90
            /\ out0' = Append(out0, CannotEnterMsg(dir_type, dir_path))
            /\ ReturnToDriver
            /\ UNCHANGED <<repositories, ridx, probed, listed, shuffled>>
       ELSE IF ~IsDir(dir_path)
       THEN \* lines 92-97
            /\ out0' = Append(out0, IF Exists(dir_path)
                                    THEN NotADirectoryMsg(dir_type, dir_path)
                                    ELSE DoesNotExistMsg(dir_type, dir_path))
            /\ ReturnToDriver
            /\ UNCHANGED <<repositories, ridx, probed, listed, shuffled>>
       ELSE IF PathIsRepository(dir_path)
       THEN \* lines 99-101
            /\ out0' = Append(out0, IsRepositoryMsg(dir_type, dir_path))
            /\ repositories' = <<<<dir_path, dir_name>>>>
            /\ probed' = {dir_path}
            /\ ridx' = 1 /\ pc' = "repos" /\ idx' = idx
            /\ UNCHANGED <<listed, shuffled>>
       ELSE \* lines 104-120
            \E dir_contents \in Listings(DirNames(dir_path)) :
               LET found == FindRepositories(dir_contents, dir_path, dir_name) IN
               /\ listed' = dir_contents
               /\ shuffled' = \E i, j \in 1..Len(found) :
                                  i < j /\ StrLess(found[j][1], found[i][1])
               /\ probed' = {found[i][1] : i \in 1..Len(found)}
               /\ out0' = Append(out0, CountMessage(dir_type, dir_path, Len(found)))
               /\ repositories' = SortRepositories(found)
               /\ ridx' = 1 /\ pc' = "repos" /\ idx' = idx
    /\ UNCHANGED <<fs, repo, cwd, entry, batch, start_cwd, dir_path, dir_name,
                   is_bookmark, invoked, updaterArgs, updaterVars, resolved,
                   probeVars, shellVars>>

\* what is kept of a call when the next one begins: of a call whose dry-run
\* fetch printed nothing, the repository, what it emitted and issued, and the
\* repository's state when it began
Summary ==
    IF procs # <<>> /\ procs[1] = Proc(0, <<>>)
    THEN [path |-> repo_path, out |-> runOut, cmds |-> cmds, before |-> runStart]
    ELSE NoRun

\* lines 101 and 121-122: call _update_repository on the next repository, or return
NextRepository ==
    /\ pc = "repos"
    /\ IF ridx > Len(repositories)
       THEN /\ ReturnToDriver
            /\ UNCHANGED <<invoked, updaterArgs, prevRun>>
       ELSE /\ repo_path' = repositories[ridx][1]
            /\ repo_name' = repositories[ridx][2]
            /\ invoked' = Append(invoked, repositories[ridx])
            /\ prevRun' = Summary
            /\ pc' = "update" /\ idx' = idx
    /\ listed' = <<>>
    /\ UNCHANGED <<fs, repo, cwd, entry, batch, start_cwd, dir_path, dir_name,
                   is_bookmark, repositories, ridx, probed, shuffled,
                   dry_fetch, last_commit, status, result, runOut, cmds, procs,
                   runStart, out0, resolved, probeVars, shellVars>>

----------------------------------------------------------------------------
(* The repository updater: _update_repository *)

\* _update_repository returns to _update_directory's loop
Return == pc' = "repos" /\ ridx' = ridx + 1

\* an exception nobody catches ends the program
Propagate == pc' = "crashed" /\ ridx' = ridx

\* lines 32-35: the header, and os.chdir
UpdateRepository ==
    /\ pc = "update"
    /\ runOut' = <<Header(repo_name)>>
    /\ cwd' = repo_path
    /\ runStart' = StateOf(repo_path)
    /\ cmds' = <<>> /\ procs' = <<>>
    /\ dry_fetch' = <<>> /\ last_commit' = <<>> /\ status' = <<>> /\ result' = <<>>
    /\ pc' = "fetch"
    /\ UNCHANGED <<fs, repo, driverVars, resolverVars, updaterArgs, prevRun,
                   out0, resolved, probeVars, shellVars>>

\* lines 40-43: the handler of a failed dry-run fetch
FetchFailedMutant ==
    /\ runOut' = Append(runOut, FetchError)
    /\ dry_fetch' = <<>>
    /\ pc' = "log" /\ ridx' = ridx
FetchFailed ==
    /\ runOut' = Append(runOut, FetchError)
    /\ dry_fetch' = dry_fetch
    /\ Return

\* lines 37-43: git fetch --dry-run
GitFetch ==
    /\ pc = "fetch"
    /\ \E proc \in GitFetchDryRun(cwd) :
          /\ cmds' = Append(cmds, "fetch")
          /\ procs' = Append(procs, proc)
          /\ IF Raises(proc)
             THEN FetchFailed
             ELSE /\ dry_fetch' = ExecShell(proc.out)
                  /\ runOut' = runOut
                  /\ pc' = "log" /\ ridx' = ridx
    /\ UNCHANGED <<fs, repo, cwd, driverVars, dir_path, dir_name, is_bookmark,
                   repositories, invoked, probed, listed, shuffled, updaterArgs,
                   last_commit, status, result, runStart, prevRun, out0,
                   resolved, probeVars, shellVars>>

\* line 50: `if not dry_fetch:`
NoNewChangesMutant(fetched) == FALSE
NoNewChanges(fetched) == fetched = <<>>

\* lines 51-52: the report of a repository with nothing to pull
ReportNoChangesMutant(age) ==
    /\ runOut' = Append(runOut, NoNewChangesMsg(age))
    /\ pc' = "status" /\ ridx' = ridx
ReportNoChanges(age) ==
    /\ runOut' = Append(runOut, NoNewChangesMsg(age))
    /\ Return

\* lines 45-48: the last commit's age, "never" when git log fails
LastCommitMutant(proc) == ExecShell(proc.out)
LastCommit(proc) == IF Raises(proc) THEN Never ELSE ExecShell(proc.out)

\* lines 45-55: git log, then the branch on the dry-run fetch's output
GitLog ==
    /\ pc = "log"
    /\ \E proc \in GitLogLast(cwd) :
          LET age == LastCommit(proc) IN
          /\ cmds' = Append(cmds, "log")
          /\ procs' = Append(procs, proc)
          /\ last_commit' = age
          /\ IF NoNewChanges(dry_fetch)
             THEN ReportNoChanges(age)
             ELSE /\ runOut' = Append(runOut, NewChangesMsg)
                  /\ pc' = "status" /\ ridx' = ridx
    /\ UNCHANGED <<fs, repo, cwd, driverVars, dir_path, dir_name, is_bookmark,
                   repositories, invoked, probed, listed, shuffled, updaterArgs,
                   dry_fetch, status, result, runStart, prevRun, out0,
                   resolved, probeVars, shellVars>>

\* line 58: status.endswith("nothing to commit, working directory clean")
\* (the variant accepts any text that ends in "clean")
IsCleanMutant(text) == EndsWith(text, SubSeq(CleanMarker, Len(CleanMarker) - 4, Len(CleanMarker)))
IsClean(text) == EndsWith(text, CleanMarker)

\* lines 56-59 and 65-68: git status, outside any try
GitStatus ==
    /\ pc = "status"
    /\ \E proc \in GitStatusOut(cwd) :
          /\ cmds' = Append(cmds, "status")
          /\ procs' = Append(procs, proc)
          /\ IF Raises(proc)
             THEN /\ Propagate
                  /\ UNCHANGED <<status, runOut>>
             ELSE LET text == ExecShell(proc.out) IN
                  /\ status' = text
                  /\ IF IsClean(text)
                     THEN /\ runOut' = Append(runOut, PullingMsg)
                          /\ pc' = "pull" /\ ridx' = ridx
                     ELSE /\ runOut' = runOut \o <<UncommittedMsg, IgnoringMsg>>
                          /\ Return
    /\ UNCHANGED <<fs, repo, cwd, driverVars, dir_path, dir_name, is_bookmark,
                   repositories, invoked, probed, listed, shuffled, updaterArgs,
                   dry_fetch, last_commit, result, runStart, prevRun, out0,
                   resolved, probeVars, shellVars>>

\* lines 61-62: the age in the report after the pull is last_commit, read
\* before the pull (the variant reads it again after the pull)
SinceAgeMutant(before, after) == after
SinceAge(before, after) == before

\* lines 60-63: git pull, outside any try
GitPull ==
    /\ pc = "pull"
    /\ \E proc \in GitPullOut(cwd) :
          /\ cmds' = Append(cmds, "pull")
          /\ procs' = Append(procs, proc)
          /\ repo' = AfterPull(cwd, proc)
          /\ IF Raises(proc)
             THEN /\ Propagate
                  /\ UNCHANGED <<result, runOut>>
             ELSE LET text == ExecShell(proc.out) IN
                  /\ result' = text
                  /\ runOut' = runOut \o
                        <<ChangesMadeMsg(SinceAge(last_commit,
                              ExecShell(AfterPull(cwd, proc)[cwd].age))),
                          Printed(text)>>
                  /\ Return
    /\ UNCHANGED <<fs, cwd, driverVars, dir_path, dir_name, is_bookmark,
                   repositories, invoked, probed, listed, shuffled, updaterArgs,
                   dry_fetch, last_commit, status, runStart, prevRun, out0,
                   resolved, probeVars, shellVars>>

----------------------------------------------------------------------------
(* The program *)

Next ==
    \/ UpdateBookmarks
    \/ UpdateDirectories
    \/ NextEntry
    \/ UpdateDirectory
    \/ NextRepository
    \/ UpdateRepository
    \/ GitFetch
    \/ GitLog
    \/ GitStatus
    \/ GitPull

Spec == Init /\ [][Next]_vars

----------------------------------------------------------------------------
(* The probe alone: _directory_is_git_repo called on any path of any        *)
(* filesystem in which /w/p, /w/p/.git, /w/p/a, /w/p/a/.git, /w/q and       *)
(* /w/q/.git are each absent, a file or a directory.                        *)

ProbeTree == {P, Join(P, DotGit), Join(P, NameA), Join(Join(P, NameA), DotGit),
              Q, Join(Q, DotGit)}
ProbePaths == ProbeTree \cup {Z, Join(Join(P, DotGit), DotGit)}

\* the parent directory of each path of ProbeTree
Parent(path) == SubSeq(path, 1, Len(path) - Len(BaseName(path)) - 1)

InitProbe ==
    /\ fs \in [ProbeTree \cup {W} -> {"absent", "file", "dir"}]
    /\ fs[W] = "dir"
    /\ \A path \in ProbeTree : fs[path] # "absent" => fs[Parent(path)] = "dir"
    /\ repo = <<>>
    /\ entry = "probe" /\ batch = <<>>
    /\ InitIdle

\* a call _directory_is_git_repo(directory_path)
ProbeCall ==
    /\ \E directory_path \in ProbePaths :
          /\ probeArg' = directory_path
          /\ probeRet' = DirectoryIsGitRepo(directory_path)
    /\ UNCHANGED <<fs, repo, cwd, driverVars, pc, resolverVars, updaterArgs,
                   updaterVars, out0, resolved, shellVars>>

NextProbe == ProbeCall

SpecProbe == InitProbe /\ [][NextProbe]_vars

----------------------------------------------------------------------------
(* _exec_shell alone: called on a process that exits with status 0 or 1     *)
(* and has printed any text of "x" and newline characters.                  *)

\* "x"
LetterX == <<120>>

Outputs == UNION {[1..k -> {LetterX[1], Newline[1]}] : k \in 0..MaxOutput}

InitShell ==
    /\ fs = <<>> /\ repo = <<>>
    /\ entry = "shell" /\ batch = <<>>
    /\ InitIdle

\* a call _exec_shell(command): lines 16-20
ShellCall ==
    /\ \E proc \in {Proc(e, o) : e \in {0, 1}, o \in Outputs} :
          /\ shellArg' = proc
          /\ shellRet' = IF Raises(proc)
                         THEN [raised |-> TRUE, value |-> <<>>]
                         ELSE [raised |-> FALSE, value |-> ExecShell(proc.out)]
    /\ UNCHANGED <<fs, repo, cwd, driverVars, pc, resolverVars, updaterArgs,
                   updaterVars, out0, resolved, probeVars>>

NextShell == ShellCall

SpecShell == InitShell /\ [][NextShell]_vars

----------------------------------------------------------------------------
(* Properties *)

\* the last _update_repository call has returned to its caller
Returned == pc \in {"repos", "loop", "resolve", "update", "done"}

\* the n-th git command of the current call was `cmd` and exited with status 0
Succeeded(n, cmd) == Len(cmds) >= n /\ cmds[n] = cmd /\ procs[n].exit = 0

\* the n-th git command of the current call was `cmd` and exited nonzero
Failed(n, cmd) == Len(cmds) >= n /\ cmds[n] = cmd /\ procs[n].exit # 0

\* C1: when the text the status command returned does not end with the
\* clean-tree marker, the call issues no pull: it has emitted the
\* uncommitted-changes warning and "Ignoring." and has returned.
C1_DirtyGuard ==
    (Succeeded(3, "status") /\ ~EndsWith(status, CleanMarker)) =>
        /\ cmds = <<"fetch", "log", "status">>
        /\ Tail(runOut) = <<NewChangesMsg, UncommittedMsg, IgnoringMsg>>
        /\ Returned

C1_Witness ==
    /\ pc = "repos"
    /\ Succeeded(3, "status") /\ procs[3].out = StatusDirty
    /\ ~EndsWith(status, CleanMarker)
    /\ StateOf(repo_path).behind

\* C2: a nonzero exit status of any of the four git commands is caught: it
\* never ends the batch.
C2_EveryFailureCaught ==
    (\E n \in 1..Len(procs) : procs[n].exit # 0) => pc # "crashed"

\* C3: when the dry-run fetch fails, the call emits exactly one report, the
\* level 2 fetch error, after its header, issues no other command, and returns.
C3_FetchFailure ==
    Failed(1, "fetch") =>
        /\ cmds = <<"fetch">>
        /\ Len(runOut) = 2 /\ runOut[1].level = 1
        /\ runOut[2] = FetchError /\ runOut[2].level = 2
        /\ Returned

\* the call after a failed dry-run fetch has been made
C3_Witness ==
    /\ Failed(1, "fetch")
    /\ pc = "update" /\ Len(invoked) = 2

\* C4: when the dry-run fetch succeeds with no output, the call reads the
\* last commit's age, emits exactly one report, "No new changes" with that
\* age, and returns: it issues neither status nor pull.
C4_NoNewChanges ==
    (Succeeded(1, "fetch") /\ procs[1].out = <<>>) =>
        IF pc = "log"
        THEN cmds = <<"fetch">> /\ Len(runOut) = 1
        ELSE /\ cmds = <<"fetch", "log">>
             /\ Len(runOut) = 2
             /\ runOut[2] = NoNewChangesMsg(last_commit)
             /\ procs[2].exit = 0 => procs[2].out = last_commit \o Newline
             /\ Returned

C4_Witness ==
    /\ pc = "repos"
    /\ Succeeded(1, "fetch") /\ procs[1].out = <<>>
    /\ Succeeded(2, "log")
    /\ runOut = <<Header(repo_name), NoNewChangesMsg(last_commit)>>

\* the text of the "No new changes" report
IsNoNewChanges(msg) == msg.level = 2 /\ msg.text = NoNewChangesMsg(<<>>).text

\* C5: two calls in a row on a repository whose dry-run fetch prints nothing
\* each emit the header and one "No new changes" report and issue only the
\* dry-run fetch and the log; the repository's state after the first and
\* after the second is its state before the first.
C5_Idempotent ==
    (/\ prevRun # NoRun /\ prevRun.path = repo_path
     /\ Succeeded(1, "fetch") /\ procs[1].out = <<>>
     /\ pc \in {"repos", "loop", "resolve", "done"}) =>
        /\ prevRun.cmds = <<"fetch", "log">> /\ cmds = <<"fetch", "log">>
        /\ Len(prevRun.out) = 2 /\ IsNoNewChanges(prevRun.out[2])
        /\ Len(runOut) = 2 /\ IsNoNewChanges(runOut[2])
        /\ runStart = prevRun.before
        /\ StateOf(repo_path) = prevRun.before

C5_Witness ==
    /\ prevRun # NoRun /\ prevRun.path = repo_path
    /\ Succeeded(1, "fetch") /\ procs[1].out = <<>>
    /\ pc = "repos"
    /\ IsNoNewChanges(runOut[2]) /\ IsNoNewChanges(prevRun.out[2])
    /\ StateOf(repo_path) = prevRun.before /\ prevRun.before.dirty

\* every _update_directory call so far has emitted its out(0, ...) message
Resolving == pc = "resolve"

\* C6: a path that does not exist gets the "does not exist" error, a path
\* that exists and is no directory the "is not a directory" error, and
\* neither gets a listing, a probe or an _update_repository call.
C6_PathErrors ==
    \A i \in 1..Len(resolved) :
        (i <= Len(out0) /\ ~IsDir(resolved[i].path)) =>
            /\ out0[i] = IF Exists(resolved[i].path)
                         THEN NotADirectoryMsg(DirType(resolved[i].is_bookmark), resolved[i].path)
                         ELSE DoesNotExistMsg(DirType(resolved[i].is_bookmark), resolved[i].path)
            /\ (i = Len(resolved) => invoked = <<>> /\ probed = {})

\* the paths of the _update_repository calls of the current _update_directory call
InvokedPaths == {invoked[i][1] : i \in 1..Len(invoked)}

\* the immediate children of a directory that the probe accepts
ChildRepositories(path) ==
    {Join(path, n) : n \in {m \in DirNames(path) : DirectoryIsGitRepo(Join(path, m))}}

\* the current _update_directory call is on a directory that is no repository
OnContainer ==
    /\ Len(resolved) > 0 /\ ~Resolving
    /\ IsDir(dir_path) /\ ~DirectoryIsGitRepo(dir_path)

\* C7: whatever the order of the listing, _update_repository is called on the
\* child repositories in ascending order of their paths, on none twice, and
\* on all of them by the time _update_directory returns.
C7_SortedOrder ==
    OnContainer =>
        /\ \A i, j \in 1..Len(invoked) : i < j => StrLess(invoked[i][1], invoked[j][1])
        /\ InvokedPaths \subseteq ChildRepositories(dir_path)
        /\ pc \in {"loop", "done"} => InvokedPaths = ChildRepositories(dir_path)

C7_Witness ==
    /\ OnContainer /\ shuffled
    /\ pc = "loop"
    /\ Len(invoked) = 3
    /\ invoked[1][1] = Join(P, NameA) /\ invoked[2][1] = Join(P, NameB)
    /\ invoked[3][1] = Join(P, NameC)

\* C8: the probe returns FALSE for a path that does not exist, FALSE for one
\* that exists without a .git subdirectory, TRUE otherwise, and changes
\* neither the filesystem nor the working directory.
C8_Answer ==
    probeArg # <<>> =>
        probeRet = (IF ~Exists(probeArg) THEN FALSE
                    ELSE IF Kind(Join(probeArg, DotGit)) # "dir" THEN FALSE
                    ELSE TRUE)
C8_Probe == []C8_Answer /\ [][fs' = fs /\ cwd' = cwd /\ repo' = repo]_vars

C8_Witness ==
    /\ probeArg = Join(P, NameA) /\ probeRet
    /\ Kind(Join(Q, DotGit)) = "dir"

\* C9: on a directory that is no repository, _update_directory emits one
\* out(0, ...) message, before any _update_repository call: "contains 1 git
\* repository" when exactly one immediate child is a repository, "contains N
\* git repositories" with their number N otherwise.
C9_CountMessage ==
    /\ Resolving => invoked = <<>> /\ Len(out0) = Len(resolved) - 1
    /\ OnContainer =>
          LET n == Cardinality(ChildRepositories(dir_path))
              t == DirType(is_bookmark)
          IN  /\ Len(out0) = Len(resolved)
              /\ out0[Len(out0)] = IF n = 1 THEN ContainsOneMsg(t, dir_path)
                                   ELSE ContainsManyMsg(t, dir_path, n)

C9_Witness ==
    /\ OnContainer /\ pc = "loop"
    /\ Len(invoked) = 1
    /\ out0[Len(out0)] = ContainsOneMsg(DirType(is_bookmark), dir_path)

\* C10: update_bookmarks on an empty list emits the guidance message once and
\* does nothing else; on a non-empty list it never emits it and calls
\* _update_directory once for each bookmark, in the order of the list, with
\* is_bookmark=True.
C10_Bookmarks ==
    entry = "bookmarks" =>
        IF batch = <<>>
        THEN /\ out0 = (IF pc = "start" THEN <<>> ELSE <<GuidanceMsg>>)
             /\ pc \in {"start", "done"}
             /\ resolved = <<>> /\ invoked = <<>> /\ cmds = <<>> /\ runOut = <<>>
             /\ cwd = start_cwd
        ELSE /\ \A i \in 1..Len(out0) : out0[i] # GuidanceMsg
             /\ Len(resolved) <= Len(batch)
             /\ \A i \in 1..Len(resolved) :
                   resolved[i] = [path |-> batch[i][1], name |-> batch[i][2],
                                  is_bookmark |-> TRUE]
             /\ pc = "done" => Len(resolved) = Len(batch)

C10_Witness ==
    /\ entry = "bookmarks" /\ pc = "done"
    /\ Len(batch) = 2 /\ Len(resolved) = 2
    /\ batch[1] = <<Z, NameZ>> /\ batch[2] = <<P, NameP>>
    /\ invoked # <<>>

\* C11: every (path, name) pair given to _update_repository is one the probe
\* has accepted in the current _update_directory call; on a directory with
\* no child repository, _update_directory emits "contains 0 git
\* repositories" and makes no _update_repository call, so no git command runs.
C11_OnlyProbedRepositories ==
    /\ InvokedPaths \subseteq probed
    /\ \A i \in 1..Len(invoked) :
          /\ IsDir(invoked[i][1]) /\ IsDir(Join(invoked[i][1], DotGit))
          /\ \/ invoked[i] = <<dir_path, dir_name>>
             \/ \E n \in DirNames(dir_path) :
                   invoked[i] = <<Join(dir_path, n), Join(dir_name, n)>>
    /\ pc \in {"update", "fetch", "log", "status", "pull", "crashed"} =>
          /\ invoked # <<>>
          /\ invoked[Len(invoked)] = <<repo_path, repo_name>>
    /\ (OnContainer /\ ChildRepositories(dir_path) = {}) =>
          /\ out0[Len(out0)] = ContainsManyMsg(DirType(is_bookmark), dir_path, 0)
          /\ invoked = <<>>
          /\ pc \in {"repos", "loop", "done"}

\* update_directories(["p"]) on a directory whose children are no repositories
C11_Witness ==
    /\ entry = "directories" /\ batch = <<NameP>>
    /\ OnContainer /\ ChildRepositories(dir_path) = {}
    /\ pc = "done" /\ dir_path = P
    /\ out0 = <<ContainsManyMsg("directory", P, 0)>>
    /\ invoked = <<>> /\ cmds = <<>> /\ cwd = start_cwd

\* C12: update_directories resolves every input path from the working
\* directory in which it was called, whatever _update_repository has done to
\* the working directory while an earlier path was handled.
C12_ResolvedFromStart ==
    entry = "directories" =>
        \A i \in 1..Len(resolved) : resolved[i].path = AbsPath(batch[i], start_cwd)

\* C13: when the dry-run fetch returned a non-empty text and the status text
\* ends with the clean-tree marker, the call issues the pull once, after the
\* status, and the report that follows the pull names last_commit, the age
\* read before the pull, followed by the pull's printed output.
C13_PullOnce ==
    (dry_fetch # <<>> /\ Succeeded(3, "status") /\ EndsWith(status, CleanMarker)) =>
        /\ SubSeq(cmds, 1, 3) = <<"fetch", "log", "status">>
        /\ IF pc = "pull"
           THEN Len(cmds) = 3 /\ runOut[Len(runOut)] = PullingMsg
           ELSE Len(cmds) = 4 /\ cmds[4] = "pull"
        /\ Succeeded(4, "pull") =>
              /\ Len(runOut) = 5
              /\ runOut[3] = PullingMsg
              /\ runOut[4] = ChangesMadeMsg(last_commit)
              /\ runOut[5] = Printed(result)
              /\ Succeeded(2, "log") => runStart.age = last_commit \o Newline
              /\ Returned

\* a pull that brought new commits: the age git log prints is now another
C13_Witness ==
    /\ pc = "repos"
    /\ Succeeded(4, "pull") /\ Succeeded(2, "log")
    /\ last_commit \o Newline = AgeOld
    /\ StateOf(repo_path).age = AgeNew
    /\ runOut[4] = ChangesMadeMsg(last_commit)

\* C14: when git log exits nonzero the age is "never", nothing is raised,
\* and the call branches on the dry-run fetch's text as it does otherwise:
\* the "No new changes" report, or the status command.
C14_NeverOnLogFailure ==
    Failed(2, "log") =>
        /\ last_commit = Never
        /\ Succeeded(1, "fetch")
        /\ IF dry_fetch = <<>>
           THEN /\ cmds = <<"fetch", "log">>
                /\ Len(runOut) = 2 /\ runOut[2] = NoNewChangesMsg(Never)
                /\ Returned
           ELSE /\ runOut[2] = NewChangesMsg
                /\ Len(cmds) = 2 => pc = "status"
                /\ Len(cmds) >= 3 => cmds[3] = "status"

C14_Witness ==
    /\ Failed(2, "log") /\ pc = "repos"
    /\ Succeeded(4, "pull")
    /\ runOut[4] = ChangesMadeMsg(Never)

\* the commands _update_repository can issue, in the order it issues them
CommandOrder == <<"fetch", "log", "status", "pull">>

\* C15: the git commands of a call are a prefix of fetch, log, status, pull;
\* status is issued only after a dry-run fetch that succeeded with a
\* non-empty output, pull only after the status command has returned.
C15_CommandPrefix ==
    /\ Len(cmds) <= Len(CommandOrder) /\ Len(procs) = Len(cmds)
    /\ cmds = SubSeq(CommandOrder, 1, Len(cmds))
    /\ Len(cmds) >= 3 =>
          Succeeded(1, "fetch") /\ procs[1].out # <<>> /\ dry_fetch # <<>>
    /\ Len(cmds) = 4 => Succeeded(3, "status")

C15_Witness ==
    /\ pc = "repos" /\ cmds = CommandOrder
    /\ \A n \in 1..4 : procs[n].exit = 0

\* the current _update_directory call is on a repository
OnRepository ==
    /\ Len(resolved) > 0 /\ ~Resolving
    /\ DirectoryIsGitRepo(dir_path)

\* C17: on a path that is a repository, _update_directory emits "is a git
\* repository" and calls _update_repository once, on that path with the
\* given name: it lists no children, emits no count message and does not
\* update the repositories inside.
C17_SingleRepository ==
    OnRepository =>
        /\ Len(out0) = Len(resolved)
        /\ out0[Len(out0)] = IsRepositoryMsg(DirType(is_bookmark), dir_path)
        /\ listed = <<>> /\ probed = {dir_path}
        /\ IF pc = "repos" /\ ridx = 1 THEN invoked = <<>>
           ELSE invoked = <<<<dir_path, dir_name>>>>

C17_Witness ==
    /\ OnRepository /\ pc = "loop"
    /\ dir_path = P /\ ChildRepositories(P) = Children
    /\ invoked = <<<<P, NameP>>>>

\* C16: _exec_shell returns the captured output without its last character
\* when that is a newline, and unchanged otherwise.
C16_StripNewline ==
    (shellArg # NoCall /\ ~shellRet.raised) =>
        shellRet.value = IF EndsWith(shellArg.out, Newline)
                         THEN SubSeq(shellArg.out, 1, Len(shellArg.out) - 1)
                         ELSE shellArg.out

====
